---- MODULE Spec2Model ----
(***************************************************************************)
(* Login throttling of the authentication component:                       *)
(*   authentication-service.js   checkLoginCredentials                     *)
(*   authentication-repository   getUserByEmail, loginAttempt,             *)
(*                               loginSuccess, resetAttempt                *)
(*                                                                         *)
(* A request is an async function: the code between two awaits runs        *)
(* atomically on the event loop, and every await is a point where other    *)
(* requests, the clock and the database may move.  A repository call that  *)
(* is NOT awaited (resetAttempt at line 29, loginAttempt at line 56) only  *)
(* puts an update in flight; the database applies it at some later time,   *)
(* in no fixed order relative to anything that follows it.                 *)
(*                                                                         *)
(* The users controller (getUsers, createUser, updateUser, changePassword) *)
(* is modelled after the login flow, with state and specifications of its  *)
(* own: SpecUsers for the handlers that write, SpecPage for the listing.   *)
(***************************************************************************)
EXTENDS Integers, FiniteSets, Sequences, TLC

\* ---------------------------------------------------------------- bounds
\* the clock runs up to MaxWindows lockout windows
MaxWindows == 2
\* cap on the failed-login counter
MaxAttempt == 7
\* room in the User collection of the users controller
MaxDocs == 2
\* most users a listing matches, and the largest page_number / page_size asked for
MaxUsers == 5
MaxPage == 3

\* ------------------------------------------------------- program constants
\* `user.attempt > 5`
Threshold == 5
\* `new Date(user.updatedOn.getTime() + 1 * 10 * 1000)`, milliseconds
Window == 1 * 10 * 1000
\* a user document whose updatedOn was never set (falsy at line 16)
NoTime == 0 - 1

\* request slots: two requests (with the updates they left in flight) can be
\* outstanding at once, which is what the races between logins need
Procs == {1, 2}
\* the registered account and an address nobody registered
Registered == {"alice"}
Emails == {"alice", "ghost"}
\* what the client may type; the account's password is "right"
Passwords == {"right", "wrong"}
FILLER == "<RANDOM_PASSWORD_FILLER>"

VARIABLES
  users,            \* the User collection: email -> document
  clock,            \* what `new Date()` returns, in ms
  pending,          \* updateOne calls issued without await, not yet applied
  pc,               \* per request slot: position in checkLoginCredentials
  email, password,  \* arguments of the request
  user,             \* `const user`  (line 14)
  passwordChecked,  \* `const passwordChecked` (line 39): "unset" until computed
  user2,            \* `const user2` (line 53)
  result            \* how the call ended: "session", "null", "FORBIDDEN", "TypeError"

VARIABLES
  docs,             \* the User collection as the users controller sees it: id -> document
  hpc,              \* per handler slot: position in createUser / updateUser / changePassword
  hreq,             \* request.params and request.body of the handler
  hres              \* the response, or the error passed to next(error)

VARIABLES
  query,            \* request.query of a users-list request
  filteredUsers,    \* what usersService.getUsers resolved to
  responseData      \* the body sent by getUsers

\* state of the users controller, untouched by the login flow
ctl == <<docs, hpc, hreq, hres>>
page == <<query, filteredUsers, responseData>>

vars == <<users, clock, pending, pc, email, password, user, passwordChecked, user2, result,
          docs, hpc, hreq, hres, query, filteredUsers, responseData>>

\* what findOne yields when no document matches
Null == [found |-> FALSE, password |-> "", attempt |-> 0, updatedOn |-> NoTime]

\* a freshly registered user: no failed login yet, updatedOn not set
NewUser == [found |-> TRUE, password |-> "right", attempt |-> 0, updatedOn |-> NoTime]

\* User.findOne({ email })
getUserByEmail(e) == IF e \in DOMAIN users THEN users[e] ELSE Null

\* passwordMatched(password, userPassword): the stored credential matches
passwordMatched(pw, stored) == pw = stored

\* effect of loginAttempt's updateOne: $set { updatedOn: now, attempt: attempt }
loginAttemptInc(u, e, attempt, now) ==
  IF e \in DOMAIN u
  THEN [u EXCEPT ![e].attempt = u[e].attempt + 1, ![e].updatedOn = now]
  ELSE u
loginAttemptNoStamp(u, e, attempt, now) ==
  IF e \in DOMAIN u THEN [u EXCEPT ![e].attempt = attempt] ELSE u
loginAttempt(u, e, attempt, now) ==
  IF e \in DOMAIN u
  THEN [u EXCEPT ![e].attempt = attempt, ![e].updatedOn = now]
  ELSE u

\* effect of loginSuccess's updateOne: $set { attempt: 0 }  (no caller)
loginSuccess(u, e) ==
  IF e \in DOMAIN u THEN [u EXCEPT ![e].attempt = 0] ELSE u

\* effect of resetAttempt's updateOne: $set { attempt: 0 }
resetAttempt(u, e) ==
  IF e \in DOMAIN u THEN [u EXCEPT ![e].attempt = 0] ELSE u

\* `let after30Minutes = new Date(user.updatedOn.getTime() + 1 * 10 * 1000)`
after30Minutes(u) == u.updatedOn + Window

\* line 23: `user.attempt > 5 && after30Minutes > now`
LockedLate(u, now) == u.attempt > Threshold + 1 /\ after30Minutes(u) > now
LockedEarly(u, now) == u.attempt >= Threshold /\ after30Minutes(u) > now
LockedNoCount(u, now) == after30Minutes(u) > now
LockedForever(u, now) == u.attempt > Threshold
Locked(u, now) == u.attempt > Threshold /\ after30Minutes(u) > now

\* line 28: `user.attempt > 5 && after30Minutes < now`
Expired(u, now) == u.attempt > Threshold /\ after30Minutes(u) < now

\* line 56: the value handed to loginAttempt
NextAttemptTwo(u2) == u2.attempt + 2
NextAttempt(u2) == u2.attempt + 1

\* the updates a slot has in flight
Mine(p) == {w \in pending : w.by = p}


\* ------------------------------------------------- users controller: data
\* handler slots: two requests of the users controller can be in progress
Handlers == {1, 2}
Ids == 1 .. MaxDocs
Addresses == {"a@x", "b@x"}
Secrets == {"pw1", "pw2"}

\* a free place in the collection / a stored document
NoDoc == [present |-> FALSE, email |-> "", password |-> ""]
Doc(e, pw) == [present |-> TRUE, email |-> e, password |-> pw]

\* a slot with no request
NoReq == [op |-> "none", id |-> 0, email |-> "", password |-> "",
          password_confirm |-> "", password_old |-> "", password_new |-> ""]

\* usersService.emailIsRegistered(email): some document has this email
emailIsRegistered(d, e) == \E i \in Ids : d[i].present /\ d[i].email = e

\* usersService.createUser(name, email, password): a document is added
FreeId(d) == CHOOSE i \in Ids : ~d[i].present /\ \A j \in Ids : ~d[j].present => i <= j
createUserDoc(d, e, pw) == [d EXCEPT ![FreeId(d)] = Doc(e, pw)]

\* usersService.updateUser(id, name, email): the document gets the new email
updateUserDoc(d, i, e) == [d EXCEPT ![i].email = e]

\* usersService.checkPassword(id, password): the old password matches
checkPassword(d, i, pw) == d[i].present /\ passwordMatched(pw, d[i].password)

\* usersService.changePassword(id, password): the document gets the new password
changePasswordDoc(d, i, pw) == [d EXCEPT ![i].password = pw]

\* line 118 / line 219: `password !== password_confirm`
ConfirmIgnored(pw, confirm) == FALSE
ConfirmMismatch(pw, confirm) == pw # confirm

CtlInit ==
  /\ docs = [i \in Ids |-> NoDoc]
  /\ hpc = [h \in Handlers |-> "idle"]
  /\ hreq = [h \in Handlers |-> NoReq]
  /\ hres = [h \in Handlers |-> "none"]

\* --------------------------------------------------- users listing: data
\* a query parameter: missing, or the integer its text parses to
Absent == [present |-> FALSE, n |-> 0]
Param(k) == [present |-> TRUE, n |-> k]
Params == {Absent} \cup {Param(k) : k \in 0 .. MaxPage}

\* `parseInt(request.query.x) || null`: NaN and 0 both become null, and null
\* counts as 0 in the arithmetic and comparisons of lines 50-62
parseIntOrNull(q) == IF q.present /\ q.n # 0 THEN q.n ELSE 0

\* request.query.sort: missing, or `field:order` already split at the colon
NoSort == [present |-> FALSE, field |-> "", order |-> ""]
Sorts == {NoSort} \cup
         {[present |-> TRUE, field |-> f, order |-> o] :
            f \in {"email", "name", "id"}, o \in {"asc", "desc", "up"}}

isValidSortField(field) == IF field \in {"email", "name"} THEN field ELSE "email"
isValidSortOrder(order) == IF order \in {"asc", "desc"} THEN order ELSE "asc"

\* the k-th user in email order; email and name are given by their rank in
\* localeCompare order, and the names are ordered differently from the emails
ListedUser(k) == [email |-> k, name |-> IF k % 2 = 0 THEN k ELSE 100 - k]

\* what usersService.getUsers may resolve to: the matching users, in any order
Lists ==
  UNION {{[i \in 1 .. n |-> ListedUser(f[i])] :
            f \in {g \in [1 .. n -> 1 .. n] : \A i, j \in 1 .. n : g[i] = g[j] => i = j}} :
         n \in 0 .. MaxUsers}

\* lines 43-47: the comparator handed to Array.prototype.sort
compareDescOnly(a, b, sortField, sortOrder) == b[sortField] - a[sortField]
compare(a, b, sortField, sortOrder) ==
  IF sortOrder = "asc" THEN a[sortField] - b[sortField] ELSE b[sortField] - a[sortField]

\* Array.prototype.sort (stable), as an insertion sort
RECURSIVE insert(_, _, _, _)
insert(x, seq, sortField, sortOrder) ==
  IF seq = <<>> THEN <<x>>
  ELSE IF compare(x, Head(seq), sortField, sortOrder) < 0 THEN <<x>> \o seq
  ELSE <<Head(seq)>> \o insert(x, Tail(seq), sortField, sortOrder)

RECURSIVE sort(_, _, _)
sort(seq, sortField, sortOrder) ==
  IF seq = <<>> THEN <<>>
  ELSE insert(seq[Len(seq)], sort(SubSeq(seq, 1, Len(seq) - 1), sortField, sortOrder),
              sortField, sortOrder)

\* Array.prototype.slice(start, end): negative indices count from the end
sliceIndex(k, len) == IF k < 0 THEN (IF len + k < 0 THEN 0 ELSE len + k)
                      ELSE (IF k > len THEN len ELSE k)
slice(seq, start, end) ==
  SubSeq(seq, sliceIndex(start, Len(seq)) + 1, sliceIndex(end, Len(seq)))

\* line 50: `(pageNumber - 1) * pageSize`
startIndexFromOne(pageNumber, pageSize) == pageNumber * pageSize
startIndex(pageNumber, pageSize) == (pageNumber - 1) * pageSize

\* JSON has no Infinity or NaN: total_pages is then sent as null
NotFinite == 0 - 1
\* line 58: `Math.ceil(totalUsers / pageSize)`
totalPagesFloor(totalUsers, pageSize) ==
  IF pageSize = 0 THEN NotFinite ELSE totalUsers \div pageSize
totalPages(totalUsers, pageSize) ==
  IF pageSize = 0 THEN NotFinite
  ELSE IF totalUsers % pageSize = 0 THEN totalUsers \div pageSize
  ELSE totalUsers \div pageSize + 1

NoResponse == [sent |-> FALSE, page_number |-> 0, page_size |-> 0, count |-> 0,
               total_pages |-> 0, has_previous_page |-> FALSE,
               has_next_page |-> FALSE, users |-> <<>>]

\* no users-list request is being served
PageIdle ==
  /\ query = [page_number |-> Absent, page_size |-> Absent, sort |-> NoSort]
  /\ filteredUsers = <<>>
  /\ responseData = NoResponse

TypeOK ==
  /\ DOMAIN users = Registered
  /\ \A e \in Registered : users[e].attempt \in 0 .. MaxAttempt
  /\ clock \in 0 .. MaxWindows * Window
  /\ pc \in [Procs -> {"idle", "lookup", "check", "pwd", "reread", "fail", "done"}]
  /\ result \in [Procs -> {"none", "session", "null", "FORBIDDEN", "TypeError"}]

Init ==
  /\ users = [e \in Registered |-> NewUser]
  /\ clock = 0
  /\ pending = {}
  /\ pc = [p \in Procs |-> "idle"]
  /\ email = [p \in Procs |-> "alice"]
  /\ password = [p \in Procs |-> "right"]
  /\ user = [p \in Procs |-> Null]
  /\ passwordChecked = [p \in Procs |-> "unset"]
  /\ user2 = [p \in Procs |-> Null]
  /\ result = [p \in Procs |-> "none"]
  /\ CtlInit
  /\ PageIdle

\* a request arrives: checkLoginCredentials(e, pw) is called and issues findOne
Start(p, e, pw) ==
  /\ pc[p] \in {"idle", "done"}
  /\ Mine(p) = {}
  /\ pc' = [pc EXCEPT ![p] = "lookup"]
  /\ email' = [email EXCEPT ![p] = e]
  /\ password' = [password EXCEPT ![p] = pw]
  /\ user' = [user EXCEPT ![p] = Null]
  /\ passwordChecked' = [passwordChecked EXCEPT ![p] = "unset"]
  /\ user2' = [user2 EXCEPT ![p] = Null]
  /\ result' = [result EXCEPT ![p] = "none"]
  /\ UNCHANGED <<users, clock, pending>>
  /\ UNCHANGED <<ctl, page>>

\* line 14: the database answers the first findOne
Lookup(p) ==
  /\ pc[p] = "lookup"
  /\ user' = [user EXCEPT ![p] = getUserByEmail(email[p])]
  /\ pc' = [pc EXCEPT ![p] = "check"]
  /\ UNCHANGED <<users, clock, pending, email, password, passwordChecked, user2, result>>
  /\ UNCHANGED <<ctl, page>>

\* lines 16-39: the lockout test, up to the await of passwordMatched
LockCheck(p) ==
  /\ pc[p] = "check"
  /\ IF ~user[p].found
     THEN \* `user.updatedOn` of null
          /\ result' = [result EXCEPT ![p] = "TypeError"]
          /\ pc' = [pc EXCEPT ![p] = "done"]
          /\ UNCHANGED pending
     ELSE IF user[p].updatedOn # NoTime /\ Locked(user[p], clock)
     THEN \* throw errorResponder(errorTypes.FORBIDDEN, ...)
          /\ result' = [result EXCEPT ![p] = "FORBIDDEN"]
          /\ pc' = [pc EXCEPT ![p] = "done"]
          /\ UNCHANGED pending
     ELSE IF user[p].updatedOn # NoTime /\ Expired(user[p], clock)
     THEN \* authenticationRepository.resetAttempt(email), not awaited
          /\ pending' = pending \cup
               {[by |-> p, kind |-> "reset", email |-> email[p], attempt |-> 0, at |-> NoTime]}
          /\ pc' = [pc EXCEPT ![p] = "pwd"]
          /\ UNCHANGED result
     ELSE /\ pc' = [pc EXCEPT ![p] = "pwd"]
          /\ UNCHANGED <<pending, result>>
  /\ UNCHANGED <<users, clock, email, password, user, passwordChecked, user2>>
  /\ UNCHANGED <<ctl, page>>

\* lines 38-53: passwordMatched resolves; a session is returned or the
\* second findOne is issued
PasswordCheck(p) ==
  /\ pc[p] = "pwd"
  /\ LET userPassword == IF user[p].found THEN user[p].password ELSE FILLER
         matched == passwordMatched(password[p], userPassword)
     IN /\ passwordChecked' = [passwordChecked EXCEPT ![p] = IF matched THEN "true" ELSE "false"]
        /\ IF user[p].found /\ matched
           THEN /\ result' = [result EXCEPT ![p] = "session"]
                /\ pc' = [pc EXCEPT ![p] = "done"]
           ELSE /\ pc' = [pc EXCEPT ![p] = "reread"]
                /\ UNCHANGED result
  /\ UNCHANGED <<users, clock, pending, email, password, user, user2>>
  /\ UNCHANGED <<ctl, page>>

\* line 53: the database answers the second findOne
ReRead(p) ==
  /\ pc[p] = "reread"
  /\ user2' = [user2 EXCEPT ![p] = getUserByEmail(email[p])]
  /\ pc' = [pc EXCEPT ![p] = "fail"]
  /\ UNCHANGED <<users, clock, pending, email, password, user, passwordChecked, result>>
  /\ UNCHANGED <<ctl, page>>

\* lines 54-57: loginAttempt(email, user2.attempt + 1), not awaited; return null
\* (the counter is unbounded in the code; the model stops counting at MaxAttempt)
FailWrite(p) ==
  /\ pc[p] = "fail"
  /\ IF ~user2[p].found
     THEN \* `user2.attempt` of null
          /\ result' = [result EXCEPT ![p] = "TypeError"]
          /\ UNCHANGED pending
     ELSE /\ NextAttempt(user2[p]) <= MaxAttempt
          /\ pending' = pending \cup
               {[by |-> p, kind |-> "attempt", email |-> email[p],
                 attempt |-> NextAttempt(user2[p]), at |-> clock]}
          /\ result' = [result EXCEPT ![p] = "null"]
  /\ pc' = [pc EXCEPT ![p] = "done"]
  /\ UNCHANGED <<users, clock, email, password, user, passwordChecked, user2>>
  /\ UNCHANGED <<ctl, page>>

\* the database applies an update that was in flight
ApplyWrite(w) ==
  /\ w \in pending
  /\ users' = IF w.kind = "reset"
              THEN resetAttempt(users, w.email)
              ELSE loginAttempt(users, w.email, w.attempt, w.at)
  /\ pending' = pending \ {w}
  /\ UNCHANGED <<clock, pc, email, password, user, passwordChecked, user2, result>>
  /\ UNCHANGED <<ctl, page>>

\* time passes, one lockout window at a time: a later instant is inside the
\* window of a timestamp (same instant), exactly at its end, or past it
Tick ==
  /\ clock + Window <= MaxWindows * Window
  /\ clock' = clock + Window
  /\ UNCHANGED <<users, pending, pc, email, password, user, passwordChecked, user2, result>>
  /\ UNCHANGED <<ctl, page>>

Step(p) ==
  \/ Lookup(p)
  \/ LockCheck(p)
  \/ PasswordCheck(p)
  \/ ReRead(p)
  \/ FailWrite(p)

Next ==
  \/ \E p \in Procs, e \in Emails, pw \in Passwords : Start(p, e, pw)
  \/ \E p \in Procs : Step(p)
  \/ \E w \in pending : ApplyWrite(w)
  \/ Tick

Spec == Init /\ [][Next]_vars

\* nothing of any request is outstanding
Quiet == pending = {} /\ \A p \in Procs : pc[p] \in {"idle", "done"}

\* one request at a time: a request arrives only when the previous one has
\* returned and its updates have been applied
SoloStart(p, e, pw) == Quiet /\ Start(p, e, pw)

NextSolo ==
  \/ \E p \in Procs, e \in Emails, pw \in Passwords : SoloStart(p, e, pw)
  \/ \E p \in Procs : Step(p)
  \/ \E w \in pending : ApplyWrite(w)
  \/ Tick

SpecSolo == Init /\ [][NextSolo]_vars

\* --------------------------------------------- users controller: handlers
\* the handler of slot h ends with outcome r
Respond(h, r) ==
  /\ hres' = [hres EXCEPT ![h] = r]
  /\ hpc' = [hpc EXCEPT ![h] = "done"]

\* the handler of slot h goes on to its next await
Await(h, at) ==
  /\ hpc' = [hpc EXCEPT ![h] = at]
  /\ UNCHANGED hres

\* nothing but the users controller's state moves
CtlOnly ==
  /\ UNCHANGED <<users, clock, pending, pc, email, password, user, passwordChecked, user2, result>>
  /\ UNCHANGED page

\* createUser, lines 110-126: the confirmation test, then emailIsRegistered is called
createUser_begin(h, e, pw, confirm) ==
  /\ hpc[h] \in {"idle", "done"}
  /\ hreq' = [hreq EXCEPT ![h] = [NoReq EXCEPT !.op = "createUser", !.email = e,
                                               !.password = pw, !.password_confirm = confirm]]
  /\ IF ConfirmMismatch(pw, confirm)
     THEN Respond(h, "INVALID_PASSWORD")
     ELSE /\ hpc' = [hpc EXCEPT ![h] = "create_check"]
          /\ hres' = [hres EXCEPT ![h] = "none"]
  /\ UNCHANGED docs
  /\ CtlOnly

\* createUser, lines 126-134: emailIsRegistered resolves; usersService.createUser is called
createUser_checked(h) ==
  /\ hpc[h] = "create_check"
  /\ IF emailIsRegistered(docs, hreq[h].email)
     THEN Respond(h, "EMAIL_ALREADY_TAKEN")
     ELSE Await(h, "create_save")
  /\ UNCHANGED <<docs, hreq>>
  /\ CtlOnly

\* createUser, lines 134-142: the document is stored and 200 is sent
\* (the collection of the model has room for MaxDocs documents)
createUser_saved(h) ==
  /\ hpc[h] = "create_save"
  /\ \E i \in Ids : ~docs[i].present
  /\ docs' = createUserDoc(docs, hreq[h].email, hreq[h].password)
  /\ Respond(h, "200")
  /\ UNCHANGED hreq
  /\ CtlOnly

\* updateUser, lines 155-162: emailIsRegistered is called for the new email
updateUser_begin(h, i, e) ==
  /\ hpc[h] \in {"idle", "done"}
  /\ docs[i].present
  /\ hreq' = [hreq EXCEPT ![h] = [NoReq EXCEPT !.op = "updateUser", !.id = i, !.email = e]]
  /\ hpc' = [hpc EXCEPT ![h] = "update_check"]
  /\ hres' = [hres EXCEPT ![h] = "none"]
  /\ UNCHANGED docs
  /\ CtlOnly

\* updateUser, lines 162-170: emailIsRegistered resolves; usersService.updateUser is called
updateUser_checked(h) ==
  /\ hpc[h] = "update_check"
  /\ IF emailIsRegistered(docs, hreq[h].email)
     THEN Respond(h, "EMAIL_ALREADY_TAKEN")
     ELSE Await(h, "update_save")
  /\ UNCHANGED <<docs, hreq>>
  /\ CtlOnly

\* updateUser, lines 170-178: the document is changed and 200 is sent
updateUser_saved(h) ==
  /\ hpc[h] = "update_save"
  /\ docs' = updateUserDoc(docs, hreq[h].id, hreq[h].email)
  /\ Respond(h, "200")
  /\ UNCHANGED hreq
  /\ CtlOnly

\* changePassword, lines 216-231: the confirmation test, then checkPassword is called
changePassword_begin(h, i, old, new, confirm) ==
  /\ hpc[h] \in {"idle", "done"}
  /\ docs[i].present
  /\ hreq' = [hreq EXCEPT ![h] = [NoReq EXCEPT !.op = "changePassword", !.id = i,
                                               !.password_old = old, !.password_new = new,
                                               !.password_confirm = confirm]]
  /\ IF ConfirmMismatch(new, confirm)
     THEN Respond(h, "INVALID_PASSWORD")
     ELSE /\ hpc' = [hpc EXCEPT ![h] = "password_check"]
          /\ hres' = [hres EXCEPT ![h] = "none"]
  /\ UNCHANGED docs
  /\ CtlOnly

\* changePassword, lines 227-239: checkPassword resolves; usersService.changePassword is called
changePassword_checked(h) ==
  /\ hpc[h] = "password_check"
  /\ IF ~checkPassword(docs, hreq[h].id, hreq[h].password_old)
     THEN Respond(h, "INVALID_CREDENTIALS")
     ELSE Await(h, "password_save")
  /\ UNCHANGED <<docs, hreq>>
  /\ CtlOnly

\* changePassword, lines 236-248: the new password is stored and 200 is sent
changePassword_saved(h) ==
  /\ hpc[h] = "password_save"
  /\ docs' = changePasswordDoc(docs, hreq[h].id, hreq[h].password_new)
  /\ Respond(h, "200")
  /\ UNCHANGED hreq
  /\ CtlOnly

NextUsers ==
  \/ \E h \in Handlers, e \in Addresses, pw, confirm \in Secrets :
       createUser_begin(h, e, pw, confirm)
  \/ \E h \in Handlers : createUser_checked(h)
  \/ \E h \in Handlers : createUser_saved(h)
  \/ \E h \in Handlers, i \in Ids, e \in Addresses : updateUser_begin(h, i, e)
  \/ \E h \in Handlers : updateUser_checked(h)
  \/ \E h \in Handlers : updateUser_saved(h)
  \/ \E h \in Handlers, i \in Ids, old, new, confirm \in Secrets :
       changePassword_begin(h, i, old, new, confirm)
  \/ \E h \in Handlers : changePassword_checked(h)
  \/ \E h \in Handlers : changePassword_saved(h)

SpecUsers == Init /\ [][NextUsers]_vars

\* ------------------------------------------------ users listing: getUsers
\* lines 11-76: the handler, from the parsed query to the body it sends
getUsers ==
  /\ ~responseData.sent
  /\ LET pageNumber == parseIntOrNull(query.page_number)
         pageSize == parseIntOrNull(query.page_size)
         sortField == IF query.sort.present THEN isValidSortField(query.sort.field) ELSE "email"
         sortOrder == IF query.sort.present THEN isValidSortOrder(query.sort.order) ELSE "asc"
         sortedUsers == sort(filteredUsers, sortField, sortOrder)
         start == startIndex(pageNumber, pageSize)
         endIndex == start + pageSize
         totalUsers == Len(sortedUsers)
     IN /\ filteredUsers' = sortedUsers    \* sort() works in place
        /\ responseData' =
             [sent |-> TRUE,
              page_number |-> pageNumber,
              page_size |-> pageSize,
              count |-> totalUsers,
              total_pages |-> totalPages(totalUsers, pageSize),
              has_previous_page |-> pageNumber > 1,
              has_next_page |-> endIndex < totalUsers,
              users |-> slice(sortedUsers, start, endIndex)]
  /\ UNCHANGED query
  /\ UNCHANGED <<users, clock, pending, pc, email, password, user, passwordChecked, user2, result>>
  /\ UNCHANGED ctl

\* a users-list request has arrived and usersService.getUsers has resolved
InitPage ==
  /\ users = [e \in Registered |-> NewUser]
  /\ clock = 0
  /\ pending = {}
  /\ pc = [p \in Procs |-> "idle"]
  /\ email = [p \in Procs |-> "alice"]
  /\ password = [p \in Procs |-> "right"]
  /\ user = [p \in Procs |-> Null]
  /\ passwordChecked = [p \in Procs |-> "unset"]
  /\ user2 = [p \in Procs |-> Null]
  /\ result = [p \in Procs |-> "none"]
  /\ CtlInit
  /\ query \in [page_number : Params, page_size : Params, sort : Sorts]
  /\ filteredUsers \in Lists
  /\ responseData = NoResponse

NextPage == getUsers

SpecPage == InitPage /\ [][NextPage]_vars

\* ------------------------------------------------------------------ claims

\* the account every login of the model is aimed at, or misses
Alice == users["alice"]

\* C1: a login whose user document shows attempt > 5 and now < updatedOn +
\* window is rejected with FORBIDDEN at the lockout test: the password is not
\* compared, no update is issued and the stored document is untouched,
\* whatever password was supplied.
C1_LockedRejects ==
  [][\A p \in Procs :
       ( /\ LockCheck(p)
         /\ user[p].found
         /\ user[p].updatedOn # NoTime
         /\ user[p].attempt > 5
         /\ clock < user[p].updatedOn + Window )
       => ( /\ result'[p] = "FORBIDDEN"
            /\ pc'[p] = "done"
            /\ passwordChecked'[p] = "unset"
            /\ pending' = pending
            /\ users' = users )]_vars

\* C1 witness: a login with the correct password was rejected while locked,
\* and the counter is what it was
C1_Witness ==
  \E p \in Procs :
    /\ pc[p] = "done" /\ result[p] = "FORBIDDEN"
    /\ password[p] = "right" /\ passwordChecked[p] = "unset"
    /\ user[p].attempt > 5 /\ clock < user[p].updatedOn + Window
    /\ Alice.attempt = user[p].attempt

\* C2: when a login returns a session, with no update of its own in flight
\* and no other request outstanding, the stored attempt counter of that user
\* is 0 (and nothing is left that could still change it).
C2_SuccessResets ==
  [][\A p \in Procs :
       (PasswordCheck(p) /\ result'[p] = "session" /\ Mine(p) = {})
         => users'[email[p]].attempt = 0]_vars

\* C3: a login with an email that is not registered ends by returning null,
\* after the password was compared; it never ends in a fault.
C3_UnknownEmailReturnsNull ==
  \A p \in Procs :
    (pc[p] = "done" /\ email[p] \notin DOMAIN users)
      => (result[p] = "null" /\ passwordChecked[p] # "unset")

\* C4: while the password of a request is being compared, and when its
\* failure path is about to re-read the counter, no reset issued by that
\* request is still in flight (the reset has taken effect).
C4_ResetBeforePasswordCheck ==
  \A p \in Procs :
    pc[p] \in {"pwd", "reread"} => ~ \E w \in Mine(p) : w.kind = "reset"

\* C9: a login whose user document shows attempt <= 5 gets past the lockout
\* test to the password comparison and never ends with FORBIDDEN, however
\* recent updatedOn is and also when updatedOn is not set.
C9_UnlockedReachesPasswordCheck ==
  \A p \in Procs :
    (user[p].found /\ user[p].attempt <= 5 /\ pc[p] \notin {"idle", "lookup", "check"})
      => /\ result[p] # "FORBIDDEN"
         /\ pc[p] # "pwd" => passwordChecked[p] # "unset"

\* C9 witness: a user at the threshold whose counter was touched at this very
\* instant had the password compared
C9_Witness ==
  \E p \in Procs :
    /\ user[p].found /\ user[p].attempt = 5 /\ user[p].updatedOn = clock
    /\ passwordChecked[p] # "unset"

C5_FailedLoginPlusOne ==
  [][/\ \A p \in Procs :
          (FailWrite(p) /\ user2[p].found)
            => \E w \in pending' : w.by = p /\ w.kind = "attempt" /\ w.at = clock
     /\ \A w \in pending :
          (ApplyWrite(w) /\ w.kind = "attempt")
            => /\ users'[w.email].attempt = user[w.by].attempt + 1
               /\ users'[w.email].updatedOn = w.at]_vars

\* C5 amended: the same for a user whose counter is at most 5 when the
\* request reads it, so that no reset of an expired lock comes in between.
C5_UnlockedFailedLoginPlusOne ==
  [][/\ \A p \in Procs :
          (FailWrite(p) /\ user2[p].found)
            => \E w \in pending' : w.by = p /\ w.kind = "attempt" /\ w.at = clock
     /\ \A w \in pending :
          (ApplyWrite(w) /\ w.kind = "attempt" /\ user[w.by].attempt <= 5)
            => /\ users'[w.email].attempt = user[w.by].attempt + 1
               /\ users'[w.email].updatedOn = w.at]_vars

\* C5 witness: a failed login of a user with a non-zero counter has been
\* recorded, later than the failure before it
C5_Witness ==
  \E p \in Procs :
    /\ pc[p] = "done" /\ result[p] = "null" /\ Quiet
    /\ user[p].attempt \in 1 .. 5
    /\ Alice.attempt = user[p].attempt + 1
    /\ Alice.updatedOn = clock /\ user[p].updatedOn < clock

\* C6: two failed logins that re-read the same counter value v and whose
\* updates have both been applied leave the counter at v + 1 (or at 0, when a
\* reset was applied last): the second failure is not counted.
C6_RaceUndercounts ==
  \A p, q \in Procs :
    ( /\ p # q
      /\ pc[p] = "done" /\ result[p] = "null"
      /\ pc[q] = "done" /\ result[q] = "null"
      /\ user2[p].attempt = user2[q].attempt
      /\ pending = {} )
    => Alice.attempt \in {0, user2[p].attempt + 1}

\* C6 witness: both failed logins re-read v, both returned null, both updates
\* were applied, and the counter stands at v + 1
C6_Witness ==
  \E p, q \in Procs :
    /\ p # q
    /\ pc[p] = "done" /\ result[p] = "null"
    /\ pc[q] = "done" /\ result[q] = "null"
    /\ user2[p].found /\ user2[p].attempt = user2[q].attempt
    /\ pending = {}
    /\ Alice.attempt = user2[p].attempt + 1

\* C7: every change of the stored attempt counter is an increase or a reset
\* to 0.
C7_NeverDecrementedExceptReset ==
  [][\A e \in Registered :
       users'[e].attempt >= users[e].attempt \/ users'[e].attempt = 0]_vars

\* C8: an update that changes attempt also stamps updatedOn with the time it
\* carries, and no update changes updatedOn while leaving attempt as it was.
C8_UpdatedOnIffAttempt ==
  [][\A w \in pending :
       ApplyWrite(w)
         => /\ users'[w.email].attempt # users[w.email].attempt
                 => (w.at # NoTime /\ users'[w.email].updatedOn = w.at)
            /\ users'[w.email].updatedOn # users[w.email].updatedOn
                 => users'[w.email].attempt # users[w.email].attempt]_vars

\* the request of a sent listing, as the handler parsed it
SortFieldUsed == IF query.sort.present /\ query.sort.field = "name" THEN "name" ELSE "email"
Descending == query.sort.present /\ query.sort.order = "desc"
\* position (from 0) of a listed user among the n matching users in the order asked for
PositionOf(u) ==
  Cardinality({i \in 1 .. Len(filteredUsers) :
                 IF Descending THEN filteredUsers[i][SortFieldUsed] > u[SortFieldUsed]
                 ELSE filteredUsers[i][SortFieldUsed] < u[SortFieldUsed]})

\* C12: for page_number p >= 1 and page_size s >= 1 over n matching users the
\* body holds exactly the users at positions (p-1)*s .. min(p*s, n)-1 of the
\* sorted list, in that order, with count = n, total_pages = ceil(n/s),
\* has_previous_page = (p > 1) and has_next_page = (p*s < n).
C12_PageWindow ==
  LET p == query.page_number.n
      s == query.page_size.n
      n == Len(filteredUsers)
      r == responseData
      last == IF p * s < n THEN p * s ELSE n
  IN (r.sent /\ query.page_number.present /\ query.page_size.present /\ p >= 1 /\ s >= 1)
     => /\ Len(r.users) = (IF last > (p - 1) * s THEN last - (p - 1) * s ELSE 0)
        /\ \A i \in 1 .. Len(r.users) :
             /\ \E j \in 1 .. n : filteredUsers[j] = r.users[i]
             /\ PositionOf(r.users[i]) = (p - 1) * s + i - 1
        /\ r.count = n
        /\ r.total_pages * s >= n /\ (r.total_pages - 1) * s < n
        /\ r.has_previous_page = (p > 1)
        /\ r.has_next_page = (p * s < n)
        /\ r.page_number = p /\ r.page_size = s

\* C12 witness: the example of the specification, page 2 of size 2 over 5
\* users sorted by name: positions 2-3, both flags set, 3 pages
C12_Witness ==
  /\ responseData.sent
  /\ query.page_number = Param(2) /\ query.page_size = Param(2)
  /\ query.sort.present /\ query.sort.field = "name" /\ query.sort.order = "asc"
  /\ Len(filteredUsers) = 5
  /\ Len(responseData.users) = 2
  /\ PositionOf(responseData.users[1]) = 2 /\ PositionOf(responseData.users[2]) = 3
  /\ responseData.has_previous_page /\ responseData.has_next_page
  /\ responseData.total_pages = 3

\* C13: when page_number or page_size is missing from the query, the body
\* holds every matching user, and in ascending email order when no sort is
\* given.
C13_NoPaginationWhenAbsent ==
  (responseData.sent /\ (~query.page_number.present \/ ~query.page_size.present))
    => /\ Len(responseData.users) = Len(filteredUsers)
       /\ \A i \in 1 .. Len(responseData.users) :
            PositionOf(responseData.users[i]) = i - 1

\* C11: no two stored documents share an email, whatever createUser and
\* updateUser requests were served and however they interleaved.
C11_EmailsUnique ==
  \A i, j \in Ids :
    (docs[i].present /\ docs[j].present /\ docs[i].email = docs[j].email) => i = j

\* C14: a changePassword request whose password_new differs from
\* password_confirm ends with INVALID_PASSWORD at once, before checkPassword
\* is called; one whose old password does not match ends with
\* INVALID_CREDENTIALS; neither changes a stored password; and a stored
\* password changes only to the password_new of a request that passed both
\* tests.
C14_ChangePasswordGuards ==
  [][/\ \A h \in Handlers :
          \* a mismatched confirmation is refused on arrival, never checked further
          /\ (hreq'[h].op = "changePassword"
                /\ hreq'[h].password_new # hreq'[h].password_confirm)
               => (hres'[h] = "INVALID_PASSWORD" /\ hpc'[h] = "done")
          /\ (hpc[h] # hpc'[h] /\ hres'[h] = "INVALID_PASSWORD") => docs' = docs
          \* a wrong old password is refused when checkPassword resolves
          /\ (hpc[h] = "password_check" /\ hpc'[h] # "password_check"
                /\ ~passwordMatched(hreq[h].password_old, docs[hreq[h].id].password))
               => (hres'[h] = "INVALID_CREDENTIALS" /\ hpc'[h] = "done" /\ docs' = docs)
          /\ hres'[h] = "INVALID_CREDENTIALS"
               => hreq'[h].password_new = hreq'[h].password_confirm
     /\ \A i \in Ids :
          (docs[i].present /\ docs'[i].password # docs[i].password)
            => \E h \in Handlers :
                 /\ hpc[h] = "password_save" /\ hpc'[h] = "done"
                 /\ hreq[h].id = i
                 /\ hreq[h].password_new = hreq[h].password_confirm
                 /\ docs'[i].password = hreq[h].password_new]_vars

\* C14 witness: one request with a mismatched confirmation and a wrong old
\* password was refused with INVALID_PASSWORD, another with a wrong old
\* password with INVALID_CREDENTIALS, and the stored password is as created
C14_Witness ==
  \E h, k \in Handlers :
    /\ hreq[h].op = "changePassword" /\ hres[h] = "INVALID_PASSWORD"
    /\ hreq[h].password_new # hreq[h].password_confirm
    /\ hreq[h].password_old # docs[hreq[h].id].password
    /\ hreq[k].op = "changePassword" /\ hres[k] = "INVALID_CREDENTIALS"
    /\ hreq[k].password_new = hreq[k].password_confirm
    /\ hreq[k].password_old # docs[hreq[k].id].password

\* C15: with one request at a time, a login that finds the counter at 0..5
\* (the first six logins from a fresh counter) reaches the password
\* comparison; each failure recorded for such a login moves the counter up by
\* exactly 1; and a login that finds it at 6 or more inside the window of the
\* last failure is rejected with FORBIDDEN without the password being
\* compared, whatever password it brings.
C15_LockOnSixthFailure ==
  [][/\ \A p \in Procs :
          (LockCheck(p) /\ user[p].found)
            => /\ user[p] = Alice
               /\ Alice.attempt <= 5 => (pc'[p] = "pwd" /\ result'[p] = "none")
               /\ (Alice.attempt >= 6 /\ clock < Alice.updatedOn + Window)
                    => (result'[p] = "FORBIDDEN" /\ pc'[p] = "done"
                        /\ passwordChecked'[p] = "unset")
     /\ \A w \in pending :
          (ApplyWrite(w) /\ w.kind = "attempt" /\ user[w.by].attempt <= 5)
            => users'[w.email].attempt = users[w.email].attempt + 1]_vars

\* C15 witness: six failures stand recorded and a login with the correct
\* password, inside the window of the sixth, has been rejected
C15_Witness ==
  \E p \in Procs :
    /\ Quiet /\ Alice.attempt = 6 /\ clock < Alice.updatedOn + Window
    /\ pc[p] = "done" /\ result[p] = "FORBIDDEN" /\ password[p] = "right"
    /\ user[p] = Alice

\* C16: a login that finds attempt > 5 is either rejected or issues the
\* reset, and exactly at now = updatedOn + window it is not rejected and
\* issues the reset.
C16_BoundaryIsExpired ==
  [][\A p \in Procs :
       (LockCheck(p) /\ user[p].found /\ user[p].updatedOn # NoTime /\ user[p].attempt > 5)
         => LET reset == \E w \in pending' : w.by = p /\ w.kind = "reset"
            IN /\ result'[p] = "FORBIDDEN" \/ reset
               /\ clock = user[p].updatedOn + Window => (result'[p] # "FORBIDDEN" /\ reset)]_vars

\* C17: in a wrong-password login that issued the reset of an expired lock,
\* the increment handed to loginAttempt is 1 also when the reset is still in
\* flight at that point, and the counter stands at 1 also when the reset is
\* the last of the request's updates to be applied.
C17_ExpiredThenFailedIsOne ==
  [][/\ \A p \in Procs :
          (FailWrite(p) /\ \E r \in Mine(p) : r.kind = "reset")
            => \E w \in pending' : w.by = p /\ w.kind = "attempt" /\ w.attempt = 1
     /\ \A w \in pending :
          (ApplyWrite(w) /\ w.kind = "reset" /\ pending = {w}
             /\ pc[w.by] = "done" /\ result[w.by] = "null")
            => users'[w.email].attempt = 1]_vars

\* C18: a login rejected as locked changes neither the stored document nor
\* what is in flight, so the end of the window stays where it was; a login
\* that finds the window over is not rejected; and a login that gets to the
\* password comparison with the correct password returns a session.
C18_LockoutEnds ==
  [][\A p \in Procs :
       /\ (LockCheck(p) /\ result'[p] = "FORBIDDEN")
            => (users' = users /\ pending' = pending)
       /\ (LockCheck(p) /\ user[p].found /\ user[p].updatedOn # NoTime
             /\ user[p].attempt > 5 /\ clock > user[p].updatedOn + Window)
            => (pc'[p] = "pwd" /\ result'[p] = "none")
       /\ (PasswordCheck(p) /\ user[p].found /\ password[p] = "right")
            => (result'[p] = "session" /\ pc'[p] = "done")]_vars

\* C18 witness: a login was rejected inside the window, the document still
\* carries the timestamp that login saw, and a later login with the correct
\* password, past that window, returned a session
C18_Witness ==
  \E p, q \in Procs :
    /\ p # q
    /\ pc[q] = "done" /\ result[q] = "FORBIDDEN"
    /\ pc[p] = "done" /\ result[p] = "session" /\ password[p] = "right"
    /\ user[p].attempt > 5 /\ user[p].updatedOn = user[q].updatedOn
    /\ clock > user[p].updatedOn + Window

\* C19: the stored document, and every copy of it a request holds, has
\* updatedOn set whenever its attempt is above 0; so a request that finds
\* attempt > 5 never skips the lockout test of lines 16-32.
C19_AttemptImpliesUpdatedOn ==
  /\ Alice.attempt > 0 => Alice.updatedOn # NoTime
  /\ \A p \in Procs :
       /\ (user[p].found /\ user[p].attempt > 0) => user[p].updatedOn # NoTime
       /\ (user2[p].found /\ user2[p].attempt > 0) => user2[p].updatedOn # NoTime

\* C19 witness: a request holds a document with attempt > 5, and its
\* timestamp is set
C19_Witness ==
  \E p \in Procs :
    /\ user[p].found /\ user[p].attempt > 5 /\ user[p].updatedOn # NoTime
    /\ pc[p] \in {"pwd", "done"}

====
